---- MODULE Spec2Model ----
(***************************************************************************)
(* Model of mythril/analysis/modules/external_calls.py: the               *)
(* ExternalCallModule detector (filter, target classification, the        *)
(* depth-bounded search_children recursion and the calls_visited dedup).  *)
(*                                                                         *)
(* Text is modelled as a sequence of one-character strings so that the    *)
(* substring tests and the storage_ regular expression are computed.      *)
(***************************************************************************)
EXTENDS Integers, Sequences, FiniteSets, TLC

\* ------------------------------------------------------------------ bounds
MaxDepth == 3
MaxEdges == 2
MaxInvocations == 7
MaxRuns == 2
MaxCalls == 2

\* ------------------------------------------------------- program constants
DefaultMaxSearchDepth == 64
GasStipend == 2300

\* ------------------------------------------------------------------- text
Digit(d) == CASE d = 0 -> "0" [] d = 1 -> "1" [] d = 2 -> "2" [] d = 3 -> "3"
              [] d = 4 -> "4" [] d = 5 -> "5" [] d = 6 -> "6" [] d = 7 -> "7"
              [] d = 8 -> "8" [] d = 9 -> "9"

RECURSIVE Decimal(_)
\* str(int) for a non-negative integer
Decimal(n) == IF n < 10 THEN <<Digit(n)>>
              ELSE Decimal(n \div 10) \o <<Digit(n % 10)>>

\* "needle in hay" of Python, on character sequences
Contains(hay, needle) ==
    \E p \in 1..(Len(hay) - Len(needle) + 1) :
        \A k \in 1..Len(needle) : hay[p + k - 1] = needle[k]

Txt2300 == Decimal(GasStipend)
TxtCalldata == <<"c","a","l","l","d","a","t","a">>
TxtCaller == <<"c","a","l","l","e","r">>
TxtStoragePrefix == <<"s","t","o","r","a","g","e","_">>

\* the character class [a-z0-9_&^]
KeyChars == {"a","b","c","d","e","f","g","h","i","j","k","l","m","n","o","p",
             "q","r","s","t","u","v","w","x","y","z",
             "0","1","2","3","4","5","6","7","8","9","_","&","^"}

\* positions where storage_([a-z0-9_&^]+) can match
StorageMatchAt(text, p) ==
    /\ p + Len(TxtStoragePrefix) <= Len(text)
    /\ \A k \in 1..Len(TxtStoragePrefix) : text[p + k - 1] = TxtStoragePrefix[k]
    /\ text[p + Len(TxtStoragePrefix)] \in KeyChars

RECURSIVE KeyRun(_, _)
\* the greedy run of key characters starting at position q
KeyRun(text, q) == IF q <= Len(text) /\ text[q] \in KeyChars
                   THEN <<text[q]>> \o KeyRun(text, q + 1)
                   ELSE <<>>

\* re.search(r"storage_([a-z0-9_&^]+)", text): <<>> for no match, else <<group(1)>>
StorageSearch(text) ==
    LET hits == {p \in 1..Len(text) : StorageMatchAt(text, p)}
    IN  IF hits = {} THEN <<>>
        ELSE LET p == CHOOSE x \in hits : \A y \in hits : x <= y
             IN  <<KeyRun(text, p + Len(TxtStoragePrefix))>>

\* ----------------------------------------------------------------- values
\* mythril.analysis.ops.Variable: val and type; str(v) is str(v.val)
Concrete(n) == [type |-> "CONCRETE", val |-> n, expr |-> <<>>]
Symbolic(t) == [type |-> "SYMBOLIC", val |-> 0, expr |-> t]
Str(v) == IF v.type = "CONCRETE" THEN Decimal(v.val) ELSE v.expr

\* ------------------------------------------------------------- statespace
NodeIds == {1, 2, 3}
\* mythril.laser.ethereum.cfg.JumpType values that edges of the model carry
IntraTypes == {"UNCONDITIONAL"}
BoundaryType == "Transaction"

St(op, addr, tx) == [opcode |-> op, address |-> addr, tx |-> tx]
Edge(f, t, ty) == [node_from |-> f, node_to |-> t, type |-> ty]
Node(uid, states) == [uid |-> uid, states |-> states,
                      contract_name |-> "MAIN", function_name |-> "f"]
Call(ty, to, gas, node, idx) ==
    [type |-> ty, to |-> to, gas |-> gas, node |-> node, state_index |-> idx]

\* call.state: the state the call was made in (state_index is 0-based)
CallState(ss, call) == ss.nodes[call.node].states[call.state_index + 1]
\* state.get_current_instruction()["address"]
CallAddress(ss, call) == CallState(ss, call).address

\* ----------------------------------------------------------------- filter
\* the condition of lines 78-85; Python reads "A and B or C" as "(A and B) or C"
FilterNoGasCheck(call) ==
    \/ call.to.type = "SYMBOLIC" /\ call.gas.type = "CONCRETE"
    \/ call.gas.type = "SYMBOLIC" /\ ~Contains(Str(call.gas), Txt2300)

PassesFilter(call) ==
    \/ /\ call.to.type = "SYMBOLIC"
       /\ call.gas.type = "CONCRETE" /\ call.gas.val > GasStipend
    \/ /\ call.gas.type = "SYMBOLIC"
       /\ ~Contains(Str(call.gas), Txt2300)

Flagged(call) == call.type = "CALL" /\ PassesFilter(call)

\* ------------------------------------------------------------- classifier
DescHead == "This contract executes a message call to "
DescArgument == "an address provided as a function argument. "
DescSender == "the address of the transaction sender. "
DescStorage == "an address found at storage slot "
DescUserSupplied == "Generally, it is not recommended to call user-supplied addresses using Solidity's call() construct."
DescTrusted == "to another contract. Make sure that the called contract is trusted and does not execute user-supplied code."
DescStateChange == "The contract account state is changed after an external call."

NoKey == <<>>
Desc(head, target, idx, func, tail) ==
    [head |-> head, target |-> target, idx |-> idx, func |-> func, tail |-> tail]

\* Python truthiness of the lookup's answer (None is <<>>, a name is <<name>>)
Truthy(opt) == opt # <<>> /\ opt[1] # ""

\* func = statespace.find_storage_write(account, idx): the provider's answer
FindStorageWrite(ss, idx) ==
    IF idx \in DOMAIN ss.find_storage_write THEN ss.find_storage_write[idx] ELSE <<>>

ClassifyCallerFirst(ss, call) ==
    LET target == Str(call.to)
    IN  IF Contains(target, TxtCaller)
        THEN [user_supplied |-> TRUE,
              description |-> Desc(DescHead, DescSender, NoKey, "", DescUserSupplied)]
        ELSE IF Contains(target, TxtCalldata)
        THEN [user_supplied |-> TRUE,
              description |-> Desc(DescHead, DescArgument, NoKey, "", DescUserSupplied)]
        ELSE [user_supplied |-> FALSE,
              description |-> Desc(DescHead, "", NoKey, "", DescTrusted)]

\* lines 87-122: user_supplied and the description built so far
Classify(ss, call) ==
    LET target == Str(call.to)
    IN  IF Contains(target, TxtCalldata) \/ Contains(target, TxtCaller)
        THEN [user_supplied |-> TRUE,
              description |->
                  IF Contains(target, TxtCalldata)
                  THEN Desc(DescHead, DescArgument, NoKey, "", DescUserSupplied)
                  ELSE Desc(DescHead, DescSender, NoKey, "", DescUserSupplied)]
        ELSE LET m == StorageSearch(Str(call.to))
             IN  IF m # <<>> /\ Truthy(FindStorageWrite(ss, m[1]))
                 THEN [user_supplied |-> TRUE,
                       description |->
                           Desc(DescHead, DescStorage, m[1],
                                FindStorageWrite(ss, m[1])[1], DescUserSupplied)]
                 ELSE [user_supplied |-> FALSE,
                       description |-> Desc(DescHead, "", NoKey, "", DescTrusted)]

TitleCall == "Message call to external contract"
TitleStateChange == "State change after external call"

Issue(node, address, title, type, description) ==
    [contract |-> node.contract_name, function_name |-> node.function_name,
     address |-> address, title |-> title, type |-> type,
     description |-> description]

\* lines 124-163: the call-level Issue
CallIssue(ss, call) ==
    LET c == Classify(ss, call)
    IN  Issue(ss.nodes[call.node], CallAddress(ss, call), TitleCall,
              IF c.user_supplied THEN "Warning" ELSE "Informational",
              c.description)

\* lines 199-212: the Issue of one state change found by the search
StateChangeIssue(ss, call, address) ==
    Issue(ss.nodes[call.node], address, TitleStateChange, "Warning",
          Desc(DescStateChange, "", NoKey, "", ""))

\* ----------------------------------------------------------------- search
\* lines 36-43: the addresses appended while scanning node.states[start_index:]
ScanSkipFirst(ss, uid, start_index, tx) ==
    LET states == ss.nodes[uid].states
        hit(s) == s.opcode = "SSTORE" /\ s.tx = tx
        found == IF Len(states) > start_index + 1
                 THEN SelectSeq(SubSeq(states, start_index + 2, Len(states)), hit)
                 ELSE <<>>
    IN  [k \in 1..Len(found) |-> found[k].address]

ScanFromZero(ss, uid, start_index, tx) ==
    LET hit(s) == s.opcode = "SSTORE" /\ s.tx = tx
        found == SelectSeq(ss.nodes[uid].states, hit)
    IN  [k \in 1..Len(found) |-> found[k].address]

Scan(ss, uid, start_index, tx) ==
    LET states == ss.nodes[uid].states
        hit(s) == s.opcode = "SSTORE" /\ s.tx = tx
        found == IF Len(states) > start_index
                 THEN SelectSeq(SubSeq(states, start_index + 1, Len(states)), hit)
                 ELSE <<>>
    IN  [k \in 1..Len(found) |-> found[k].address]

\* lines 44-48: the children of a node, in the order of statespace.edges
ChildrenFirstOnly(ss, uid) ==
    LET out(e) == e.node_from = uid /\ e.type # BoundaryType
        es == SelectSeq(ss.edges, out)
    IN  [k \in 1..(IF Len(es) > 0 THEN 1 ELSE 0) |-> es[k].node_to]

ChildrenAllEdges(ss, uid) ==
    LET out(e) == e.node_from = uid
        es == SelectSeq(ss.edges, out)
    IN  [k \in 1..Len(es) |-> es[k].node_to]

Children(ss, uid) ==
    LET out(e) == e.node_from = uid /\ e.type # BoundaryType
        es == SelectSeq(ss.edges, out)
    IN  [k \in 1..Len(es) |-> es[k].node_to]

\* line 30: the guard of one invocation's whole body
DepthGuardInclusive(depth, max) == depth <= max

DepthGuard(depth, max) == depth < max

\* one invocation of search_children: its arguments and its position
Frame(uid, transaction_id, start_index, depth) ==
    [node |-> uid, transaction_id |-> transaction_id,
     start_index |-> start_index, depth |-> depth,
     phase |-> "enter", children |-> <<>>, ci |-> 1]

\* ----------------------------------------------------------------- inputs
\* destination and gas expressions as the provider renders them
ToCalldata == <<"c","a","l","l","d","a","t","a","_","a","r","g","_","0">>
ToCaller == <<"c","a","l","l","e","r">>
ToBoth == <<"c","a","l","l","e","r","&","c","a","l","l","d","a","t","a">>
ToStorage3 == <<"s","t","o","r","a","g","e","_","3">>
ToStorageCaller == <<"s","t","o","r","a","g","e","_","1","+","c","a","l","l","e","r">>
ToNoKey == <<"s","t","o","r","a","g","e","_">>
ToSecond == <<"s","t","o","r","a","g","e","_","+","s","t","o","r","a","g","e","_","7">>
ToCaret == <<"X","s","t","o","r","a","g","e","_","a","b","^","1"," ">>
ToPlain == <<"a","d","d","r">>
GasPlain == <<"g","a","s">>
GasStipendText == <<"2","3","0","0">>
GasTimesTen == <<"2","3","0","0","0">>

SymbolicTargets == {ToCalldata, ToCaller, ToBoth, ToStorage3, ToStorageCaller,
                    ToNoKey, ToSecond, ToCaret, ToPlain}
Targets == {Symbolic(t) : t \in SymbolicTargets} \cup {Concrete(1234)}
Gases == {Concrete(g) : g \in {2100, GasStipend, GasStipend + 1, 5000}}
             \cup {Symbolic(t) : t \in {GasPlain, GasStipendText, GasTimesTen}}
CallTypes == {"CALL", "DELEGATECALL", "CALLCODE"}

Keys == {<<"3">>, <<"1">>, <<"7">>, <<"a","b","^","1">>}
Lookups == { [k \in Keys |-> <<>>],
             [k \in Keys |-> <<"setOwner">>],
             [k \in Keys |-> IF k = <<"3">> THEN <<"setOwner">> ELSE <<>>],
             [k \in Keys |-> IF k = <<"3">> THEN <<"">> ELSE <<"setOwner">>] }
NoLookup == [k \in Keys |-> <<>>]

SeqsUpTo(S, n) == UNION {[1..k -> S] : k \in 0..n}

Space(layout, edges, calls, lookup) ==
    [nodes |-> [n \in NodeIds |-> Node(n, layout[n])], edges |-> edges,
     calls |-> calls, find_storage_write |-> lookup]

TheCall == Call("CALL", Symbolic(ToCalldata), Concrete(5000), 1, 0)

\* the end-to-end scenario: the call in node 1, edges 1 -> 2 -> 3, one SSTORE at 0x42
E2ELayout == <<<<St("CALL", 16, 1)>>, <<>>, <<St("SSTORE", 66, 1)>>>>
E2EEdges == <<Edge(1, 2, "UNCONDITIONAL"), Edge(2, 3, "UNCONDITIONAL")>>
E2E == Space(E2ELayout, E2EEdges, <<TheCall>>, NoLookup)

\* graph family: one flagged call in node 1, every edge list up to MaxEdges
Layouts ==
    { E2ELayout,
      <<<<St("CALL", 16, 1), St("SSTORE", 48, 1)>>,
        <<St("PUSH1", 64, 1), St("SSTORE", 66, 1)>>,
        <<St("SSTORE", 67, 2)>>>>,
      <<<<St("SSTORE", 49, 1), St("CALL", 16, 1)>>, <<>>, <<St("SSTORE", 66, 1)>>>>,
      <<<<St("SSTORE", 49, 1), St("CALL", 16, 1), St("SSTORE", 48, 2)>>,
        <<St("SSTORE", 66, 1), St("SSTORE", 66, 2)>>,
        <<St("SLOAD", 70, 1)>>>>,
      <<<<St("CALL", 16, 1)>>, <<St("SLOAD", 64, 1)>>, <<St("SSTORE", 66, 2)>>>>,
      <<<<St("SSTORE", 49, 1), St("CALL", 16, 1)>>, <<St("SSTORE", 49, 1)>>, <<>>>> }
EdgeUniverse ==
    {Edge(f, t, ty) : f \in NodeIds, t \in NodeIds, ty \in IntraTypes}
        \cup {Edge(1, 2, BoundaryType), Edge(2, 3, BoundaryType),
              Edge(1, 3, BoundaryType)}
CallIndex(layout) == CHOOSE j \in 0..(Len(layout[1]) - 1) : layout[1][j + 1].opcode = "CALL"
GraphFamily ==
    { Space(l, es, <<[TheCall EXCEPT !.state_index = CallIndex(l)]>>, NoLookup) :
          l \in Layouts, es \in SeqsUpTo(EdgeUniverse, MaxEdges) }

\* call family: one call of every kind, destination and gas in one node
CallFamily ==
    { Space(<<<<St(ty, 16, 1), St("SSTORE", 48, 1)>>, <<>>, <<>>>>, <<>>,
            <<Call(ty, to, gas, 1, 0)>>, lk) :
          ty \in CallTypes, to \in Targets, gas \in Gases, lk \in Lookups }

\* sequence family: several calls, two of them at the same program address
SeqLayout == <<<<St("CALL", 16, 1), St("SSTORE", 48, 1)>>,
               <<St("CALL", 16, 2), St("SSTORE", 50, 2)>>,
               <<St("CALL", 32, 1), St("SSTORE", 52, 1)>>>>
SeqEdges == <<Edge(1, 3, "UNCONDITIONAL")>>
SeqCalls == { TheCall,
              Call("CALL", Symbolic(ToPlain), Symbolic(GasPlain), 2, 0),
              Call("CALL", Symbolic(ToCaller), Concrete(5000), 3, 0),
              Call("CALL", Symbolic(ToCaller), Concrete(GasStipend), 3, 0) }
SeqFamily ==
    { Space(SeqLayout, SeqEdges, cs, NoLookup) : cs \in SeqsUpTo(SeqCalls, MaxCalls) }

\* what a host that runs the same detector again passes
\* a sequence with a call under the stipend and a call of another kind first
MixedLayout == <<<<St("CALL", 16, 1), St("SSTORE", 48, 1)>>,
                 <<St("DELEGATECALL", 24, 1), St("SSTORE", 50, 1)>>,
                 <<St("CALL", 32, 1), St("SSTORE", 52, 1)>>>>
MixedCalls == <<Call("CALL", Symbolic(ToCaller), Concrete(GasStipend), 3, 0),
                Call("DELEGATECALL", Symbolic(ToCalldata), Concrete(5000), 2, 0),
                Call("CALL", Symbolic(ToCaller), Concrete(5000), 3, 0)>>
Mixed == Space(MixedLayout, SeqEdges, MixedCalls, NoLookup)

RepeatFamily ==
    { E2E, Mixed } \cup
    { Space(SeqLayout, SeqEdges, cs, NoLookup) :
          cs \in { <<TheCall>>,
                   <<Call("CALL", Symbolic(ToPlain), Symbolic(GasPlain), 2, 0)>>,
                   <<Call("CALL", Symbolic(ToCaller), Concrete(5000), 3, 0), TheCall>>,
                   <<Call("CALL", Symbolic(ToCaller), Concrete(GasStipend), 3, 0),
                     Call("CALL", Symbolic(ToPlain), Symbolic(GasPlain), 2, 0),
                     TheCall>> } }

Inputs(h) == IF h = "single" THEN GraphFamily \cup CallFamily \cup SeqFamily
             ELSE RepeatFamily
RunsAllowed(h) == IF h = "single" THEN 1 ELSE MaxRuns

RECURSIVE Cost(_, _, _, _, _), CostChildren(_, _, _, _, _, _)
\* invocations of search_children from (uid, depth), counted up to budget + 1
Cost(ss, max, uid, depth, budget) ==
    IF budget <= 0 \/ depth >= max THEN 1
    ELSE 1 + CostChildren(ss, max, Children(ss, uid), 1, depth + 1, budget - 1)
CostChildren(ss, max, ch, k, depth, budget) ==
    IF k > Len(ch) THEN 0
    ELSE LET c == Cost(ss, max, ch[k], depth, budget)
         IN  IF c > budget THEN c
             ELSE c + CostChildren(ss, max, ch, k + 1, depth, budget - c)
WithinBudget(ss, max) ==
    \A k \in 1..Len(ss.calls) :
        Cost(ss, max, ss.calls[k].node, 0, MaxInvocations) <= MaxInvocations

EmptySpace == Space(<<<<>>, <<>>, <<>>>>, <<>>, <<>>, NoLookup)

VARIABLES
    max_search_depth,        \* self.max_search_depth
    calls_visited,           \* self.calls_visited
    statespace,              \* the argument of the running execute
    pc,                      \* position in execute
    call_i,                  \* index of the call the for loop is at
    issues,                  \* the local list issues
    stack,                   \* active invocations of search_children
    results,                 \* the one list object all invocations share
    state_change_addresses,  \* what the outermost search_children returned
    searched,                \* addresses search_children was started for in this run
    history,                 \* finished runs: statespace, calls_visited before, issues
    host                     \* which inputs the caller of execute draws from

vars == <<max_search_depth, calls_visited, statespace, pc, call_i, issues, stack,
          results, state_change_addresses, searched, history, host>>

detector == <<max_search_depth, calls_visited>>
search == <<stack, results>>

\* ------------------------------------------------------------------- init
\* detector = ExternalCallModule(max_search_depth): no run has started
Init ==
    /\ max_search_depth \in (0..MaxDepth) \cup {DefaultMaxSearchDepth}
    /\ calls_visited = <<>>
    /\ statespace = EmptySpace
    /\ pc = "idle"
    /\ call_i = 1
    /\ issues = <<>>
    /\ stack = <<>>
    /\ results = <<>>
    /\ state_change_addresses = <<>>
    /\ searched = <<>>
    /\ history = <<>>

Range(seq) == {seq[k] : k \in 1..Len(seq)}
ThisCall == statespace.calls[call_i]
Top == stack[Len(stack)]
SetTop(f) == [stack EXCEPT ![Len(stack)] = f]

\* ---------------------------------------------------------------- execute
\* lines 62-64: execute(statespace) starts with an empty issue list
Execute ==
    /\ pc = "idle"
    /\ Len(history) < RunsAllowed(host)
    /\ \E ss \in Inputs(host) :
        /\ WithinBudget(ss, max_search_depth)
        /\ statespace' = ss
        /\ history' = Append(history,
                             [statespace |-> ss, visited_before |-> calls_visited,
                              returned |-> <<>>, done |-> FALSE])
    /\ issues' = <<>>
    /\ call_i' = 1
    /\ searched' = <<>>
    /\ state_change_addresses' = <<>>
    /\ pc' = "loop"
    /\ UNCHANGED <<detector, search, host>>

\* lines 66-85: a call that is not a CALL or fails the filter is passed over
SkipCall ==
    /\ pc = "loop"
    /\ call_i <= Len(statespace.calls)
    /\ ~Flagged(ThisCall)
    /\ call_i' = call_i + 1
    /\ UNCHANGED <<detector, statespace, pc, issues, search,
                   state_change_addresses, searched, history, host>>

RepeatCallSilent ==
    /\ pc = "loop"
    /\ call_i <= Len(statespace.calls)
    /\ Flagged(ThisCall)
    /\ CallAddress(statespace, ThisCall) \in Range(calls_visited)
    /\ call_i' = call_i + 1
    /\ UNCHANGED <<detector, statespace, pc, issues, search,
                   state_change_addresses, searched, history, host>>

RepeatCallRecorded ==
    /\ pc = "loop"
    /\ call_i <= Len(statespace.calls)
    /\ Flagged(ThisCall)
    /\ CallAddress(statespace, ThisCall) \in Range(calls_visited)
    /\ issues' = Append(issues, CallIssue(statespace, ThisCall))
    /\ calls_visited' = Append(calls_visited, CallAddress(statespace, ThisCall))
    /\ call_i' = call_i + 1
    /\ UNCHANGED <<max_search_depth, statespace, pc, search,
                   state_change_addresses, searched, history, host>>

\* lines 87-167: a flagged call whose address is already in calls_visited
RepeatCall ==
    /\ pc = "loop"
    /\ call_i <= Len(statespace.calls)
    /\ Flagged(ThisCall)
    /\ CallAddress(statespace, ThisCall) \in Range(calls_visited)
    /\ issues' = Append(issues, CallIssue(statespace, ThisCall))
    /\ call_i' = call_i + 1
    /\ UNCHANGED <<detector, statespace, pc, search, state_change_addresses,
                   searched, history, host>>

FreshCallNotRecorded ==
    /\ pc = "loop"
    /\ call_i <= Len(statespace.calls)
    /\ Flagged(ThisCall)
    /\ CallAddress(statespace, ThisCall) \notin Range(calls_visited)
    /\ issues' = Append(issues, CallIssue(statespace, ThisCall))
    /\ searched' = Append(searched, CallAddress(statespace, ThisCall))
    /\ results' = <<>>
    /\ stack' = <<Frame(ThisCall.node, CallState(statespace, ThisCall).tx,
                        ThisCall.state_index + 1, 0)>>
    /\ pc' = "search"
    /\ UNCHANGED <<detector, statespace, call_i, state_change_addresses,
                   history, host>>

\* lines 87-184: a flagged call at a new address; search_children is called
FreshCall ==
    /\ pc = "loop"
    /\ call_i <= Len(statespace.calls)
    /\ Flagged(ThisCall)
    /\ CallAddress(statespace, ThisCall) \notin Range(calls_visited)
    /\ issues' = Append(issues, CallIssue(statespace, ThisCall))
    /\ calls_visited' = Append(calls_visited, CallAddress(statespace, ThisCall))
    /\ searched' = Append(searched, CallAddress(statespace, ThisCall))
    /\ results' = <<>>
    /\ stack' = <<Frame(ThisCall.node, CallState(statespace, ThisCall).tx,
                        ThisCall.state_index + 1, 0)>>
    /\ pc' = "search"
    /\ UNCHANGED <<max_search_depth, statespace, call_i, state_change_addresses,
                   history, host>>

\* lines 30-48: the body of one invocation up to the loop over its children
SearchBody ==
    /\ pc = "search"
    /\ Top.phase = "enter"
    /\ IF DepthGuard(Top.depth, max_search_depth)
       THEN /\ results' = results \o Scan(statespace, Top.node, Top.start_index,
                                         Top.transaction_id)
            /\ stack' = SetTop([Top EXCEPT !.phase = "children",
                                           !.children = Children(statespace, Top.node)])
       ELSE /\ results' = results
            /\ stack' = SetTop([Top EXCEPT !.phase = "children"])
    /\ UNCHANGED <<detector, statespace, pc, call_i, issues,
                   state_change_addresses, searched, history, host>>

\* lines 51-58: the recursive call for the next child, at depth + 1 and index 0
SearchRecurse ==
    /\ pc = "search"
    /\ Top.phase = "children"
    /\ Top.ci <= Len(Top.children)
    /\ stack' = Append(stack, Frame(Top.children[Top.ci], Top.transaction_id, 0,
                                    Top.depth + 1))
    /\ UNCHANGED <<detector, statespace, pc, call_i, issues, results,
                   state_change_addresses, searched, history, host>>

\* line 52: results += <the list the callee returned>; the callee was handed
\* results itself and returns it, so the list is extended by its own content
ExtendFresh(own, returned) == own

ExtendInPlace(own, returned) == own \o returned

\* lines 52-60: a recursive call returns into its caller's loop
SearchReturn ==
    /\ pc = "search"
    /\ Top.phase = "children"
    /\ Top.ci > Len(Top.children)
    /\ Len(stack) > 1
    /\ results' = ExtendInPlace(results, results)
    /\ stack' = LET rest == SubSeq(stack, 1, Len(stack) - 1)
                IN  [rest EXCEPT ![Len(rest)].ci = @ + 1]
    /\ UNCHANGED <<detector, statespace, pc, call_i, issues,
                   state_change_addresses, searched, history, host>>

\* lines 60, 177-184: the outermost invocation returns to execute
SearchFinish ==
    /\ pc = "search"
    /\ Top.phase = "children"
    /\ Top.ci > Len(Top.children)
    /\ Len(stack) = 1
    /\ state_change_addresses' = results
    /\ stack' = <<>>
    /\ pc' = "emit"
    /\ UNCHANGED <<detector, statespace, call_i, issues, results, searched,
                   history, host>>

EmitOncePerAddress ==
    /\ pc = "emit"
    /\ issues' = issues \o
           LET first == {k \in 1..Len(state_change_addresses) :
                            \A j \in 1..(k - 1) :
                                state_change_addresses[j] # state_change_addresses[k]}
               keep(k) == k \in first
               ks == SelectSeq([k \in 1..Len(state_change_addresses) |-> k], keep)
           IN  [k \in 1..Len(ks) |->
                   StateChangeIssue(statespace, ThisCall,
                                    state_change_addresses[ks[k]])]
    /\ call_i' = call_i + 1
    /\ pc' = "loop"
    /\ UNCHANGED <<detector, statespace, search, state_change_addresses,
                   searched, history, host>>

\* lines 191-213: one Issue per element of state_change_addresses
EmitStateChanges ==
    /\ pc = "emit"
    /\ issues' = issues \o
           [k \in 1..Len(state_change_addresses) |->
               StateChangeIssue(statespace, ThisCall, state_change_addresses[k])]
    /\ call_i' = call_i + 1
    /\ pc' = "loop"
    /\ UNCHANGED <<detector, statespace, search, state_change_addresses,
                   searched, history, host>>

\* line 215: return issues
Return ==
    /\ pc = "loop"
    /\ call_i > Len(statespace.calls)
    /\ history' = [history EXCEPT ![Len(history)].returned = issues,
                                  ![Len(history)].done = TRUE]
    /\ pc' = "idle"
    /\ UNCHANGED <<detector, statespace, call_i, issues, search,
                   state_change_addresses, searched, host>>

Next ==
    \/ Execute
    \/ SkipCall
    \/ RepeatCall
    \/ FreshCall
    \/ SearchBody
    \/ SearchRecurse
    \/ SearchReturn
    \/ SearchFinish
    \/ EmitStateChanges
    \/ Return

InitSingle == Init /\ host = "single"
InitRepeat == Init /\ host = "repeat"

\* one analysis run per detector, over every input family
Spec == InitSingle /\ [][Next]_vars
\* the same detector run up to MaxRuns times
SpecRuns == InitRepeat /\ [][Next]_vars
\* search_children is sequential code: while an invocation is active its next
\* step is taken
SearchStep == SearchBody \/ SearchRecurse \/ SearchReturn \/ SearchFinish
FairSpec == InitSingle /\ [][Next]_vars /\ WF_vars(SearchStep)

\* ================================================================= claims
Run(k) == history[k]
Finished(k) == k \in DOMAIN history /\ history[k].done
Searching == pc \in {"search", "emit"}
\* the transaction id the running search was started with
SearchTx == CallState(statespace, ThisCall).tx
Matching(ss, uid, tx) ==
    {j \in 1..Len(ss.nodes[uid].states) :
        /\ ss.nodes[uid].states[j].opcode = "SSTORE"
        /\ ss.nodes[uid].states[j].tx = tx}
IntraEdge(ss, f, t) ==
    \E k \in 1..Len(ss.edges) :
        /\ ss.edges[k].node_from = f /\ ss.edges[k].node_to = t
        /\ ss.edges[k].type # BoundaryType
Succ(ss, S) == {t \in NodeIds : \E f \in S : IntraEdge(ss, f, t)}
RECURSIVE PathEnds(_, _, _)
\* the nodes a path of exactly k non-boundary edges from a node of S ends in
PathEnds(ss, S, k) == IF k = 0 THEN S ELSE PathEnds(ss, Succ(ss, S), k - 1)
Min(a, b) == IF a < b THEN a ELSE b
\* the nodes reached from uid by a path of lo..hi non-boundary edges; a node
\* reached by some path is reached by one of at most Cardinality(NodeIds) edges
Within(ss, uid, lo, hi) ==
    UNION {PathEnds(ss, {uid}, k) : k \in lo..Min(hi, Cardinality(NodeIds))}

\* C1: the end-to-end scenario (call to calldata_arg_0 with gas 5000 in node 1,
\* edges 1 -> 2 -> 3, one SSTORE at 0x42 in node 3) returns exactly two Issues:
\* the argument-supplied Warning at the call and one state-change Warning at 0x42.
C1_EndToEndTwoIssues ==
    (Finished(1) /\ Run(1).statespace = E2E /\ max_search_depth >= 3) =>
        LET r == Run(1).returned
        IN  /\ Len(r) = 2
            /\ r[1].title = TitleCall /\ r[1].type = "Warning"
            /\ r[1].address = 16 /\ r[1].description.target = DescArgument
            /\ r[2].title = TitleStateChange /\ r[2].type = "Warning"
            /\ r[2].address = 66

\* the filter as the claim words it
ClaimFilter(call) ==
    /\ call.type = "CALL"
    /\ \/ call.to.type = "SYMBOLIC" /\ call.gas.type = "CONCRETE" /\ call.gas.val > 2300
       \/ call.gas.type = "SYMBOLIC" /\ ~Contains(call.gas.expr, <<"2","3","0","0">>)
AtCall == pc = "loop" /\ call_i <= Len(statespace.calls)

\* C2: a call makes execute emit issues iff it is a CALL and (destination
\* Symbolic and gas Concrete > 2300, or gas Symbolic without "2300" in its text);
\* every other call adds no Issue and starts no search.
C2_FilterIff ==
    [][AtCall =>
        IF ClaimFilter(ThisCall)
        THEN Len(issues') > Len(issues)
        ELSE /\ issues' = issues /\ searched' = searched
             /\ stack' = <<>> /\ pc' = "loop"]_vars

\* C2 witness: a Concrete destination with Symbolic uncapped gas was flagged
C2_Witness ==
    /\ Finished(1) /\ Len(Run(1).statespace.calls) = 1
    /\ Run(1).statespace.calls[1].to.type = "CONCRETE"
    /\ Run(1).statespace.calls[1].gas.type = "SYMBOLIC"
    /\ Len(Run(1).returned) = 2

\* C3: every address the search has collected is the address of an SSTORE
\* state of the call's transaction in a node reachable from the call's node by
\* at most max_search_depth non-boundary edges, and every active invocation
\* was entered from its caller's node through a non-boundary edge.
C3_SearchSound ==
    Searching =>
        /\ \A a \in Range(results) :
             \E n \in Within(statespace, ThisCall.node, 0, max_search_depth) :
                \E j \in Matching(statespace, n, SearchTx) :
                    statespace.nodes[n].states[j].address = a
        /\ \A k \in 2..Len(stack) :
             IntraEdge(statespace, stack[k - 1].node, stack[k].node)
        /\ pc = "emit" => state_change_addresses = results

\* C3 witness: a search ended empty although a Transaction edge leads from the
\* call's node to a node holding an SSTORE of the call's transaction
C3_Witness ==
    /\ pc = "emit" /\ state_change_addresses = <<>> /\ max_search_depth >= 2
    /\ \E k \in 1..Len(statespace.edges) :
          /\ statespace.edges[k].type = BoundaryType
          /\ statespace.edges[k].node_from = ThisCall.node
          /\ Matching(statespace, statespace.edges[k].node_to, SearchTx) # {}

\* the addresses of the SSTORE states of transaction tx in the nodes of S
WritesIn(ss, S, tx) ==
    UNION {{ss.nodes[n].states[j].address : j \in Matching(ss, n, tx)} : n \in S}
\* those of the call's own node at or after the start index
WritesAfterCall(ss, call) ==
    {ss.nodes[call.node].states[j].address :
        j \in {i \in Matching(ss, call.node, CallState(ss, call).tx) :
                  i - 1 >= call.state_index + 1}}

\* C4 as stated: a finished search holds the address of every SSTORE state of
\* the call's transaction in every node reached from the call's node by a path
\* of 1 to max_search_depth non-boundary edges.
C4_CompleteUpToMax ==
    pc = "emit" =>
        WritesIn(statespace,
                 Within(statespace, ThisCall.node, 1, max_search_depth), SearchTx)
            \subseteq Range(state_change_addresses)

\* C4 amended: a child entered at depth d + 1 is scanned from index 0 only when
\* d + 1 < max_search_depth, so a finished search holds the address of every
\* SSTORE state of the call's transaction in every node reached by a path of at
\* least one and fewer than max_search_depth non-boundary edges; and every
\* active invocation below the outermost one scans from index 0 at its
\* caller's depth + 1.
C4_CompleteBelowMax ==
    /\ pc = "emit" =>
          WritesIn(statespace,
                   Within(statespace, ThisCall.node, 1, max_search_depth - 1),
                   SearchTx)
              \subseteq Range(state_change_addresses)
    /\ \A k \in 2..Len(stack) :
          stack[k].start_index = 0 /\ stack[k].depth = stack[k - 1].depth + 1

\* C4 witness: with max_search_depth = 3 and paths of three edges present, the
\* writes two edges away are found
C4_Witness ==
    /\ pc = "emit" /\ max_search_depth = 3
    /\ PathEnds(statespace, {ThisCall.node}, 3) # {}
    /\ WritesIn(statespace, PathEnds(statespace, {ThisCall.node}, 2), SearchTx) # {}
    /\ WritesIn(statespace, PathEnds(statespace, {ThisCall.node}, 2), SearchTx)
          \subseteq Range(state_change_addresses)

\* C5 as stated: for every max_search_depth >= 0 a finished search holds the
\* address of every SSTORE state of the call's transaction in the call's own
\* node at or after the start index.
C5_OwnNodeAnyDepth ==
    pc = "emit" =>
        WritesAfterCall(statespace, ThisCall) \subseteq Range(state_change_addresses)

\* C5 amended: the same for every max_search_depth >= 1 (with
\* max_search_depth = 0 the guard of line 30 skips the scan of the own node).
C5_OwnNodeDepthAtLeastOne ==
    (pc = "emit" /\ max_search_depth >= 1) =>
        WritesAfterCall(statespace, ThisCall) \subseteq Range(state_change_addresses)

\* C5 witness: the call's node has no outgoing edge and its later SSTORE is found
C5_Witness ==
    /\ pc = "emit" /\ max_search_depth >= 1
    /\ Children(statespace, ThisCall.node) = <<>>
    /\ WritesAfterCall(statespace, ThisCall) # {}
    /\ Range(state_change_addresses) = WritesAfterCall(statespace, ThisCall)

NoDuplicates(seq) == \A j, k \in 1..Len(seq) : seq[j] = seq[k] => j = k
IsCallIssue(i) == i.title = TitleCall
IsStateChangeIssue(i) == i.title = TitleStateChange

\* C6: in one run search_children is started at most once per call address, and
\* a flagged call whose address was searched before in the run appends exactly
\* its call-level Issue and starts no search, whatever its node or transaction.
C6_SearchOncePerAddress ==
    /\ [](NoDuplicates(searched))
    /\ [][(AtCall /\ Flagged(ThisCall)
            /\ CallAddress(statespace, ThisCall) \in Range(searched)) =>
             /\ Len(issues') = Len(issues) + 1
             /\ SubSeq(issues', 1, Len(issues)) = issues
             /\ IsCallIssue(issues'[Len(issues')])
             /\ issues'[Len(issues')].address = CallAddress(statespace, ThisCall)
             /\ searched' = searched /\ stack' = <<>> /\ pc' = "loop"]_vars

\* C6 witness: a run over two flagged calls at one address in different nodes
\* and transactions ended with one search and both call-level Issues
C6_Witness ==
    /\ Finished(1) /\ Len(searched) = 1
    /\ Len(Run(1).statespace.calls) = 2
    /\ Run(1).statespace.calls[1].node # Run(1).statespace.calls[2].node
    /\ CallState(Run(1).statespace, Run(1).statespace.calls[1]).tx
          # CallState(Run(1).statespace, Run(1).statespace.calls[2]).tx
    /\ Len(SelectSeq(Run(1).returned, IsCallIssue)) = 2
    /\ Len(SelectSeq(Run(1).returned, IsStateChangeIssue)) = 1

\* C7: calls_visited is empty when a run starts, so two finished runs of one
\* detector over the same statespace return the same Issues.
C7_RunsIndependent ==
    \A j, k \in DOMAIN history :
        (Finished(j) /\ Finished(k) /\ Run(j).statespace = Run(k).statespace) =>
            Run(j).returned = Run(k).returned

\* C8: the call-level Issue of a flagged call is Warning/argument-supplied if
\* the destination text contains "calldata"; else Warning/sender-supplied if it
\* contains "caller"; else Warning/storage-slot with key and writer if a
\* storage_<key> is extracted and the lookup names a function; else
\* Informational/trusted.
C8_ClassifierFirstMatch ==
    [][(AtCall /\ Flagged(ThisCall)) =>
        LET t == Str(ThisCall.to)
            i == issues'[Len(issues) + 1]
            m == StorageSearch(t)
            w == IF m = <<>> THEN <<>> ELSE FindStorageWrite(statespace, m[1])
        IN  /\ i.title = TitleCall
            /\ IF Contains(t, TxtCalldata)
               THEN i.type = "Warning" /\ i.description.target = DescArgument
               ELSE IF Contains(t, TxtCaller)
               THEN i.type = "Warning" /\ i.description.target = DescSender
               ELSE IF m # <<>> /\ w # <<>> /\ w[1] # ""
               THEN /\ i.type = "Warning" /\ i.description.target = DescStorage
                    /\ i.description.idx = m[1] /\ i.description.func = w[1]
               ELSE /\ i.type = "Informational"
                    /\ i.description.tail = DescTrusted]_vars

\* C8 witness: a destination holding both markers, "caller" first, was
\* classified argument-supplied
C8_Witness ==
    /\ Finished(1) /\ Len(Run(1).statespace.calls) = 1
    /\ Run(1).statespace.calls[1].to = Symbolic(ToBoth)
    /\ Len(Run(1).returned) >= 1
    /\ Run(1).returned[1].description.target = DescArgument

\* the calls the loop has dealt with so far
Processed == IF Searching THEN call_i ELSE call_i - 1
FlaggedSoFar == SelectSeq(SubSeq(statespace.calls, 1, Processed), Flagged)

\* C9: whatever calls_visited held before, the Issues titled "Message call to
\* external contract" are, in order, one per call that passed the filter, each
\* at the program address of its call.
C9_OneCallIssuePerFlaggedCall ==
    LET ci == SelectSeq(issues, IsCallIssue)
    IN  /\ Len(ci) = Len(FlaggedSoFar)
        /\ \A k \in 1..Len(ci) :
              ci[k].address = CallAddress(statespace, FlaggedSoFar[k])
        /\ \A k \in DOMAIN history :
              Finished(k) =>
                 Len(SelectSeq(Run(k).returned, IsCallIssue))
                     = Len(SelectSeq(Run(k).statespace.calls, Flagged))

\* C9 witness: a second run, started with calls_visited already holding the
\* call's address, returned the call-level Issue
C9_Witness ==
    /\ Finished(2) /\ Run(2).visited_before # <<>>
    /\ Len(Run(2).statespace.calls) >= 1
    /\ CallAddress(Run(2).statespace, Run(2).statespace.calls[1])
          \in Range(Run(2).visited_before)
    /\ Len(SelectSeq(Run(2).returned, IsCallIssue)) >= 1

\* C10: the depth of every active invocation of search_children is at most
\* max_search_depth, and every search that starts returns to execute.
C10_SearchTerminates ==
    /\ [](\A k \in 1..Len(stack) :
             stack[k].depth = k - 1 /\ stack[k].depth <= max_search_depth)
    /\ (pc = "search") ~> (pc = "emit")

\* C10 witness: a search over a cycle through the call's node is max_search_depth
\* deep and back at the call's node
C10_Witness ==
    /\ pc = "search" /\ max_search_depth >= 2
    /\ Len(stack) = max_search_depth + 1
    /\ Top.node = ThisCall.node


Count(seq, a) == Cardinality({k \in 1..Len(seq) : seq[k] = a})
MatchesAt(ss, uid, start_index, tx, a) ==
    Cardinality({j \in Matching(ss, uid, tx) :
                    j - 1 >= start_index /\ ss.nodes[uid].states[j].address = a})
RECURSIVE PathStatePairs(_, _, _, _, _, _, _), PairsBelow(_, _, _, _, _, _, _)
\* the number of (path, state) pairs: a non-boundary path (a sequence of edges)
\* of fewer than max edges that continues from uid at the given depth, and a
\* matching state with address a in the node the path ends in
PathStatePairs(ss, max, uid, start_index, depth, tx, a) ==
    IF depth >= max THEN 0
    ELSE MatchesAt(ss, uid, start_index, tx, a)
             + PairsBelow(ss, max, Children(ss, uid), 1, depth + 1, tx, a)
PairsBelow(ss, max, ch, k, depth, tx, a) ==
    IF k > Len(ch) THEN 0
    ELSE PathStatePairs(ss, max, ch[k], 0, depth, tx, a)
             + PairsBelow(ss, max, ch, k + 1, depth, tx, a)

\* C11: an address appears in the list search_children returned as many times
\* as there are (path, state) pairs of a non-boundary path of fewer than
\* max_search_depth edges from the call's node and a matching SSTORE state with
\* that address in the path's end node; on a tree with one state per address
\* every address appears once.
C11_CountEqualsPaths ==
    pc = "emit" =>
        \A a \in UNION {{statespace.nodes[n].states[j].address :
                             j \in 1..Len(statespace.nodes[n].states)} :
                                n \in NodeIds} :
            Count(state_change_addresses, a)
                = PathStatePairs(statespace, max_search_depth, ThisCall.node,
                                 ThisCall.state_index + 1, 0, SearchTx, a)


Last(seq) == seq[Len(seq)]
IsPrefix(a, b) == Len(a) <= Len(b) /\ SubSeq(b, 1, Len(a)) = a
CallIssueOf(i, call) ==
    IsCallIssue(i) /\ i.address = CallAddress(statespace, call)

\* C12: the Issues follow the order of statespace.calls: a flagged call appends
\* its call-level Issue first; nothing is appended while its search runs; then
\* one Warning "State change after external call" per element of the search
\* result, in the result's order and at that element's address, is appended
\* right after it, and only then does the loop move to the next call; what
\* execute returns is this list.
C12_IssueOrder ==
    [][pc # "idle" =>
        /\ IsPrefix(issues, issues')
        /\ call_i' >= call_i
        /\ (AtCall /\ Flagged(ThisCall)) =>
              /\ Len(issues') = Len(issues) + 1
              /\ CallIssueOf(Last(issues'), ThisCall)
        /\ pc = "search" =>
              /\ issues' = issues /\ call_i' = call_i
              /\ CallIssueOf(Last(issues), ThisCall)
        /\ pc = "emit" =>
              /\ CallIssueOf(Last(issues), ThisCall)
              /\ Len(issues') = Len(issues) + Len(state_change_addresses)
              /\ \A k \in 1..Len(state_change_addresses) :
                    /\ IsStateChangeIssue(issues'[Len(issues) + k])
                    /\ issues'[Len(issues) + k].type = "Warning"
                    /\ issues'[Len(issues) + k].address = state_change_addresses[k]
              /\ call_i' = call_i + 1
        /\ (pc = "loop" /\ ~AtCall) =>
              history'[Len(history)].returned = issues]_vars

\* C12 witness: a finished run over two flagged calls at different addresses
\* returned call-level Issue, its state changes, then the second call's Issue
\* and its state changes
C12_Witness ==
    /\ Finished(1) /\ Len(searched) = 2
    /\ LET r == Run(1).returned
       IN  \E k \in 3..(Len(r) - 1) :
              /\ IsCallIssue(r[1]) /\ r[1].address = searched[1]
              /\ \A j \in 2..(k - 1) : IsStateChangeIssue(r[j])
              /\ IsCallIssue(r[k]) /\ r[k].address = searched[2]
              /\ \A j \in (k + 1)..Len(r) : IsStateChangeIssue(r[j])


\* calls_visited as it was when the running (or last) execute started
VisitedBefore == IF history = <<>> THEN <<>> ELSE Last(history).visited_before

\* C13: after any prefix of statespace.calls, calls_visited has no duplicate
\* and holds what it held when the run started plus exactly the addresses of
\* the calls of the prefix that passed the filter; it only grows; a call that
\* fails the filter or is not a CALL changes neither calls_visited nor issues.
C13_VisitedInvariant ==
    /\ [](/\ NoDuplicates(calls_visited)
          /\ IsPrefix(VisitedBefore, calls_visited)
          /\ Range(calls_visited) =
                Range(VisitedBefore) \cup
                {CallAddress(statespace, FlaggedSoFar[k]) :
                     k \in 1..Len(FlaggedSoFar)})
    /\ [][/\ IsPrefix(calls_visited, calls_visited')
          /\ (AtCall /\ (ThisCall.type # "CALL" \/ ~PassesFilter(ThisCall))) =>
                calls_visited' = calls_visited /\ issues' = issues]_vars

\* C13 witness: a second run started with calls_visited = <<0x10>>, passed over a
\* call under the stipend and a DELEGATECALL, and added 0x20 for the third call
C13_Witness ==
    /\ Finished(2) /\ Run(2).statespace = Mixed
    /\ Run(2).visited_before = <<16>>
    /\ calls_visited = <<16, 32>>
    /\ Len(SelectSeq(Run(2).returned, IsCallIssue)) = 1


\* the SSTORE states of the call's transaction at or before the call in its node
PreCallWrites(ss, call) ==
    {j \in Matching(ss, call.node, CallState(ss, call).tx) :
        j - 1 <= call.state_index}
\* the call's node lies on a non-boundary cycle of fewer than max edges
OnShortCycle(ss, call, max) == call.node \in Within(ss, call.node, 1, max - 1)
\* the addresses of the scanned states other than the pre-call states
OtherScanned(ss, call, max) ==
    WritesIn(ss, Within(ss, call.node, 1, max - 1) \ {call.node},
             CallState(ss, call).tx)
        \cup (IF max >= 1 THEN WritesAfterCall(ss, call) ELSE {})

\* C14: an SSTORE state of the call's transaction at an index <= the call's in
\* the call's own node is not scanned by the outermost invocation, which
\* appends only the writes from the start index on; the node is scanned from
\* index 0 only by a deeper invocation, which exists only when the node is
\* reachable from itself by a non-boundary cycle of fewer than max_search_depth
\* edges, and then the state's address is reported. Without such a cycle its
\* address is in the result only if another scanned state carries it.
C14_PreCallWrites ==
    /\ [](pc = "emit" =>
            \A j \in PreCallWrites(statespace, ThisCall) :
                LET a == statespace.nodes[ThisCall.node].states[j].address
                IN  IF OnShortCycle(statespace, ThisCall, max_search_depth)
                    THEN a \in Range(state_change_addresses)
                    ELSE a \in Range(state_change_addresses)
                            <=> a \in OtherScanned(statespace, ThisCall,
                                                   max_search_depth))
    /\ [](pc = "search" =>
            \A k \in 1..Len(stack) :
                (stack[k].node = ThisCall.node
                    /\ stack[k].depth < max_search_depth) =>
                    IF k = 1
                    THEN stack[k].start_index = ThisCall.state_index + 1
                    ELSE /\ stack[k].start_index = 0
                         /\ OnShortCycle(statespace, ThisCall, max_search_depth))
    /\ [][(pc = "search" /\ Len(stack) = 1 /\ Top.phase = "enter"
             /\ max_search_depth >= 1) =>
            /\ Range(results') = WritesAfterCall(statespace, ThisCall)
            /\ Len(results') =
                  Cardinality(Matching(statespace, ThisCall.node, SearchTx)
                                 \ PreCallWrites(statespace, ThisCall))]_vars

\* C14 witness: the write before the call is reported through a cycle back to
\* the call's node, and no other scanned state has its address
C14_Witness ==
    /\ pc = "emit"
    /\ OnShortCycle(statespace, ThisCall, max_search_depth)
    /\ \E j \in PreCallWrites(statespace, ThisCall) :
          LET a == statespace.nodes[ThisCall.node].states[j].address
          IN  /\ a \in Range(state_change_addresses)
              /\ a \notin OtherScanned(statespace, ThisCall, max_search_depth)

====
